---------------------------- MODULE Spec2Model ----------------------------
(***************************************************************************)
(* A state-machine model of unreal_engine/cv_capture.py: the script that   *)
(* connects to the simulator, prepares the output directories, assigns     *)
(* segmentation IDs, and runs the capture loop that pauses the simulation, *)
(* requests images and detections, persists them and resumes.              *)
(*                                                                         *)
(* The simulator and the file system are the environment.  Every call into *)
(* them may raise; the script has no try/except, so a raised exception     *)
(* ends the run (action Fail).  The simulator's answers (the detections    *)
(* it reports, the camera resolution) are nondeterministic inputs.         *)
(*                                                                         *)
(* Three specifications share the actions:                                 *)
(*   Spec       main() from its first line, with the literals of main;     *)
(*   SpecSeg    reset_segmentation_ids on any name list and any scene;     *)
(*   SpecAnnot  annotate_and_save_image on any detections and any filters. *)
(***************************************************************************)
EXTENDS Integers, Sequences, FiniteSets, TLC

(***************************************************************************)
(* Bounds of the model.                                                    *)
(***************************************************************************)
\* capture_images is explored for every num_iterations in 0..MaxIter
MaxIter == 12
\* detections the simulator reports per iteration under Spec
MaxSceneDets == 1
\* detections handed to annotate_and_save_image under SpecAnnot
MaxDets == 2
\* length of the name list under SpecSeg and of the filter list under SpecAnnot
MaxNames == 2

(***************************************************************************)
(* Literals of the program.                                                *)
(***************************************************************************)
NumDirs == 4
CameraFov == 87
NumCameras == 2
SegIdModulus == 256
FilterRadius == 80000
ImageDim == 1024
BaseX == 90
FixedY == -20
FixedZ == -30

Camera == "3"
MainObjectNameList == <<"Character">>

(***************************************************************************)
(* Inputs: names, scenes, detections.                                      *)
(***************************************************************************)
\* substrings a caller may configure
FilterNames == {"Character", "Char", "Wall"}

\* names of the objects of a scene (word characters only)
ObjectNames == {"Character_03", "character_03", "Wall_01", "Obj1_a", "Obj256_a"}

\* a list of as many unique names as there are segmentation IDs
LongNameList == [k \in 1..SegIdModulus |-> "Obj" \o ToString(k) \o "_"]

\* segmentation IDs the objects may carry before the script runs
InitSegIds == {0, 7}

\* camera resolutions the simulator may be configured with: <<width, height>>
Resolutions == {<<1024, 1024>>, <<1920, 1080>>}

Box(x1, y1, x2, y2) == [min |-> <<x1, y1>>, max |-> <<x2, y2>>]

Det(name, box) == [name |-> name, box2D |-> box]

\* boxes a camera of the given resolution can report: min <= max, inside the image
BoxesIn(res) ==
    {b \in {Box(100, 100, 200, 300), Box(0, 0, 128, 128), Box(0, 0, 1920, 1080)} :
        b.max[1] <= res[1] /\ b.max[2] <= res[2]}

DetectionsIn(res) ==
    {Det("Character_03", b) : b \in BoxesIn(res)} \cup
    {Det("Wall_01", Box(0, 0, 128, 128)), Det("character_03", Box(100, 100, 200, 300))}

SceneDetectionsIn(res) ==
    {Det("Character_03", b) : b \in BoxesIn(res) \ {Box(0, 0, 128, 128)}} \cup
    {Det("Wall_01", Box(0, 0, 128, 128))}

SeqsUpTo(S, k) == UNION {[1..m -> S] : m \in 0..k}

(***************************************************************************)
(* Pure helpers.                                                           *)
(***************************************************************************)
\* Python's  sub in s  on strings: case-sensitive substring test
Contains_ExactMatch(sub, s) == sub = s

Contains(sub, s) ==
    \E k \in 0..(Len(s) - Len(sub)) : SubSeq(s, k + 1, k + Len(sub)) = sub

\* Python's round(num / den, 3) for an exactly representable quotient, in
\* thousandths: round half to even
Round3_Truncate(num, den) == (num * 1000) \div den

Round3(num, den) ==
    LET q == (num * 1000) \div den
        r == (num * 1000) % den
    IN  IF 2 * r < den THEN q
        ELSE IF 2 * r > den THEN q + 1
        ELSE IF q % 2 = 0 THEN q ELSE q + 1

\* the four values of lines 125-128, in thousandths
BoxValues(box) ==
    << Round3(box.min[1] + box.max[1], 2 * ImageDim),
       Round3(box.min[2] + box.max[2], 2 * ImageDim),
       Round3(box.max[1] - box.min[1], ImageDim),
       Round3(box.max[2] - box.min[2], ImageDim) >>

\* str() of the float t/1000 as an f-string prints it: shortest repr, at least
\* one digit after the point, trailing zeros dropped.  (A negative value that
\* rounds to -0.0 does not arise: boxes have min <= max.)
FloatRepr(t) ==
    LET a == IF t < 0 THEN -t ELSE t
        f == a % 1000
        frac == IF f = 0 THEN "0"
                ELSE IF f % 100 = 0 THEN ToString(f \div 100)
                ELSE IF f % 10 = 0
                     THEN (IF f < 100 THEN "0" ELSE "") \o ToString(f \div 10)
                ELSE (IF f < 10 THEN "00" ELSE IF f < 100 THEN "0" ELSE "")
                     \o ToString(f)
    IN  (IF t < 0 THEN "-" ELSE "") \o ToString(a \div 1000) \o "." \o frac

\* one line of the label file (without its line terminator)
LabelLine(box) ==
    LET v == BoxValues(box)
    IN  "1 " \o FloatRepr(v[1]) \o " " \o FloatRepr(v[2]) \o " "
             \o FloatRepr(v[3]) \o " " \o FloatRepr(v[4])

\* the nested loops of annotate_and_save_image: one append per (box, mesh) hit
RECURSIVE AnnotateLoop(_, _)
AnnotateLoop(ds, meshes) ==
    IF ds = <<>> THEN <<>>
    ELSE LET hits == SelectSeq(meshes, LAMBDA m : Contains(m, Head(ds).name))
         IN  [k \in 1..Len(hits) |-> Head(ds)] \o AnnotateLoop(Tail(ds), meshes)

\* what one pass of the inner body draws on the image
DrawOps(boxes) ==
    [k \in 1..Len(boxes) |->
        [rectangle |-> <<boxes[k].box2D.min, boxes[k].box2D.max>>,
         outline   |-> "red",
         text      |-> boxes[k].name,
         at        |-> boxes[k].box2D.min]]

\* the common stem of one iteration's files, inside subdirectory "0"
ImageFile_Constant(iteration) == "0/0_0"

ImageFile(iteration) == "0/" \o ToString(iteration) \o "_0"

\* the ID the idx-th name (0-based) is given
SegIdFor_OffByOne(i) == i % SegIdModulus

SegIdFor(i) == (i + 1) % SegIdModulus

\* the pose of iteration x
PoseOf(k) == <<k + BaseX, FixedY, FixedZ>>

\* the two requests of line 63-66 and the simulator's answer to them
ImageRequests ==
    << [camera |-> Camera, image_type |-> "Scene", pixels_as_float |-> FALSE, compress |-> FALSE],
       [camera |-> Camera, image_type |-> "Segmentation", pixels_as_float |-> FALSE, compress |-> FALSE] >>

ResponseTo(req, res) ==
    [image_type |-> req.image_type, pixels_as_float |-> req.pixels_as_float,
     width |-> res[1], height |-> res[2]]

VARIABLES
    pc,               \* position in the script
    failedAt,         \* the position at which an exception was raised, or "none"
    resolution,       \* camera resolution of the simulator
    n,                \* loop variable of create_output_directories
    dirs,             \* directories that exist under tmp_dir
    connected,        \* confirmConnection has succeeded
    fov,              \* field of view of camera "3" (0: never set)
    camera_id,        \* loop variable of main's camera-info loop
    object_name_list, \* main's object_name_list / the argument of reset_segmentation_ids
    idx,              \* loop variable of reset_segmentation_ids
    segCalls,         \* the simSetSegmentationObjectID calls issued, in order
    segId,            \* the simulator's segmentation ID of every object
    detFilter,        \* detection filter of camera "3": <<radius, mesh name>>
    num_iterations,   \* argument of capture_images
    meshNames,        \* argument of capture_images / annotate_and_save_image
    x,                \* loop variable of capture_images
    pose,             \* the vehicle's pose
    paused,           \* the simulation clock is paused
    pauseCalls,       \* simPause(True) calls issued
    resumeCalls,      \* simPause(False) calls issued
    imageRequests,    \* simGetImages calls issued
    detRequests,      \* simGetDetections calls issued
    responses,        \* capture_images' responses
    dets,             \* capture_images' dets
    image_file,       \* save_images_and_annotations' image_file
    i,                \* loop variable of save_images_and_annotations
    im,               \* annotate_and_save_image's im: what has been drawn on it
    listBoxes,        \* annotate_and_save_image's listBoxes
    written,          \* the files written, in order of writing
    annotImage,       \* content of the annotated image written last
    labelFile         \* content of the label file written last: its lines

simVars == <<resolution, connected, fov, segCalls, segId, detFilter, pose, paused,
             pauseCalls, resumeCalls, imageRequests, detRequests>>
fsVars == <<dirs, written, annotImage, labelFile>>
mainVars == <<n, camera_id, object_name_list, idx>>
captureVars == <<num_iterations, meshNames, x, responses, dets>>
saveVars == <<image_file, i, im, listBoxes>>
vars == <<pc, failedAt, simVars, fsVars, mainVars, captureVars, saveVars>>


(***************************************************************************)
(* Positions of the script.                                                *)
(***************************************************************************)
\* positions whose call goes to the simulator or the file system and may raise
FallibleSteps ==
    {"makedirs", "VehicleClient", "confirmConnection", "simSetCameraFov",
     "simGetCameraInfo", "seg_reset", "seg_assign", "simSetDetectionFilterRadius",
     "simAddDetectionFilterMeshName", "simSetVehiclePose", "simPause_true",
     "simGetImages", "simGetDetections", "write_image", "Image_open", "im_save",
     "save_bounding_boxes", "simPause_false", "reset_pose"}

\* positions inside save_images_and_annotations and its callees
PersistenceSteps ==
    {"write_image", "Image_open", "annotate", "im_save", "save_bounding_boxes"}

\* where capture_images starts: the loop body, or past the loop when it is empty
LoopEntry(k, count) == IF k < count THEN "simSetVehiclePose" ELSE "reset_pose"

(***************************************************************************)
(* The state main() starts in.                                             *)
(***************************************************************************)
Init ==
    /\ pc = "makedirs"
    /\ failedAt = "none"
    /\ resolution \in Resolutions
    /\ n = 0
    /\ dirs = {}
    /\ connected = FALSE
    /\ fov = 0
    /\ camera_id = 0
    /\ object_name_list = <<>>
    /\ idx = 0
    /\ segCalls = <<>>
    /\ segId \in [ObjectNames -> InitSegIds]
    /\ detFilter = <<0, "">>
    /\ num_iterations \in 0..MaxIter
    /\ meshNames = <<>>
    /\ x = 0
    /\ pose = <<0, 0, 0>>
    /\ paused = FALSE
    /\ pauseCalls = 0
    /\ resumeCalls = 0
    /\ imageRequests = 0
    /\ detRequests = 0
    /\ responses = <<>>
    /\ dets = <<>>
    /\ image_file = ""
    /\ i = 0
    /\ im = <<>>
    /\ listBoxes = <<>>
    /\ written = <<>>
    /\ annotImage = <<>>
    /\ labelFile = <<>>

(***************************************************************************)
(* main, create_output_directories, setup_client.                          *)
(***************************************************************************)
\* line 33, one pass of the loop of create_output_directories(tmp_dir, 4)
MakeDirs ==
    /\ pc = "makedirs"
    /\ n < NumDirs
    /\ dirs' = dirs \cup {ToString(n)}
    /\ n' = n + 1
    /\ pc' = IF n + 1 < NumDirs THEN "makedirs" ELSE "VehicleClient"
    /\ UNCHANGED <<failedAt, simVars, written, annotImage, labelFile, camera_id,
                   object_name_list, idx, captureVars, saveVars>>

\* line 22
VehicleClient ==
    /\ pc = "VehicleClient"
    /\ pc' = "confirmConnection"
    /\ UNCHANGED <<failedAt, simVars, fsVars, mainVars, captureVars, saveVars>>

\* line 23, without the assignment: a client that never confirms
ConfirmConnection_Skipped ==
    /\ pc = "confirmConnection"
    /\ pc' = "simSetCameraFov"
    /\ UNCHANGED <<failedAt, simVars, fsVars, mainVars, captureVars, saveVars>>

\* line 23
ConfirmConnection ==
    /\ pc = "confirmConnection"
    /\ connected' = TRUE
    /\ pc' = "simSetCameraFov"
    /\ UNCHANGED <<failedAt, resolution, fov, segCalls, segId, detFilter, pose, paused,
                   pauseCalls, resumeCalls, imageRequests, detRequests, fsVars,
                   mainVars, captureVars, saveVars>>

\* line 24
SimSetCameraFov ==
    /\ pc = "simSetCameraFov"
    /\ fov' = CameraFov
    /\ pc' = "wait_key_1"
    /\ UNCHANGED <<failedAt, resolution, connected, segCalls, segId, detFilter, pose,
                   paused, pauseCalls, resumeCalls, imageRequests, detRequests, fsVars,
                   mainVars, captureVars, saveVars>>

\* line 138
WaitKey1 ==
    /\ pc = "wait_key_1"
    /\ camera_id' = 0
    /\ pc' = "simGetCameraInfo"
    /\ UNCHANGED <<failedAt, simVars, fsVars, n, object_name_list, idx, captureVars,
                   saveVars>>

\* lines 140-143, one pass of the loop
SimGetCameraInfo ==
    /\ pc = "simGetCameraInfo"
    /\ camera_id < NumCameras
    /\ camera_id' = camera_id + 1
    /\ pc' = IF camera_id + 1 < NumCameras THEN "simGetCameraInfo" ELSE "wait_key_2"
    /\ UNCHANGED <<failedAt, simVars, fsVars, n, object_name_list, idx, captureVars,
                   saveVars>>

\* lines 145-148: the key press, the literal name list, the call
WaitKey2 ==
    /\ pc = "wait_key_2"
    /\ object_name_list' = MainObjectNameList
    /\ pc' = "seg_reset"
    /\ UNCHANGED <<failedAt, simVars, fsVars, n, camera_id, idx, captureVars, saveVars>>

(***************************************************************************)
(* reset_segmentation_ids.                                                 *)
(***************************************************************************)
\* The simulator's simSetSegmentationObjectID(regex, id, True).  The script's
\* patterns are [\w]* literal [\w]* ; on names of word characters such a
\* pattern matches exactly the names that contain the literal (the reset's
\* [\w]* has the empty literal).
SetSegmentationObjectID(ids, literal, id) ==
    [o \in DOMAIN ids |-> IF Contains(literal, o) THEN id ELSE ids[o]]

\* lines 41-42
SimResetSegmentation ==
    /\ pc = "seg_reset"
    /\ segId' = SetSegmentationObjectID(segId, "", 0)
    /\ segCalls' = Append(segCalls, [literal |-> "", id |-> 0])
    /\ idx' = 0
    /\ pc' = IF 0 < Len(object_name_list) THEN "seg_assign"
             ELSE "simSetDetectionFilterRadius"
    /\ UNCHANGED <<failedAt, resolution, connected, fov, detFilter, pose, paused,
                   pauseCalls, resumeCalls, imageRequests, detRequests, fsVars, n,
                   camera_id, object_name_list, captureVars, saveVars>>

\* lines 44-48, one pass of the loop
SimAssignSegmentation ==
    /\ pc = "seg_assign"
    /\ idx < Len(object_name_list)
    /\ LET obj_name == object_name_list[idx + 1]
       IN  /\ segId' = SetSegmentationObjectID(segId, obj_name, SegIdFor(idx))
           /\ segCalls' = Append(segCalls, [literal |-> obj_name, id |-> SegIdFor(idx)])
    /\ idx' = idx + 1
    /\ pc' = IF idx + 1 < Len(object_name_list) THEN "seg_assign"
             ELSE "simSetDetectionFilterRadius"
    /\ UNCHANGED <<failedAt, resolution, connected, fov, detFilter, pose, paused,
                   pauseCalls, resumeCalls, imageRequests, detRequests, fsVars, n,
                   camera_id, object_name_list, captureVars, saveVars>>

\* line 150
SimSetDetectionFilterRadius ==
    /\ pc = "simSetDetectionFilterRadius"
    /\ detFilter' = <<FilterRadius, detFilter[2]>>
    /\ pc' = "simAddDetectionFilterMeshName"
    /\ UNCHANGED <<failedAt, resolution, connected, fov, segCalls, segId, pose, paused,
                   pauseCalls, resumeCalls, imageRequests, detRequests, fsVars,
                   mainVars, captureVars, saveVars>>

\* lines 151-153: the filter, then the call capture_images(client, tmp_dir,
\* object_name_list) binds meshNames and enters the loop
SimAddDetectionFilterMeshName ==
    /\ pc = "simAddDetectionFilterMeshName"
    /\ detFilter' = <<detFilter[1], "*">>
    /\ meshNames' = object_name_list
    /\ x' = 0
    /\ pc' = LoopEntry(0, num_iterations)
    /\ UNCHANGED <<failedAt, resolution, connected, fov, segCalls, segId, pose, paused,
                   pauseCalls, resumeCalls, imageRequests, detRequests, fsVars,
                   mainVars, num_iterations, responses, dets, saveVars>>

(***************************************************************************)
(* capture_images.                                                         *)
(***************************************************************************)
\* lines 57-58
SimSetVehiclePose ==
    /\ pc = "simSetVehiclePose"
    /\ x < num_iterations
    /\ pose' = PoseOf(x)
    /\ pc' = "simPause_true"
    /\ UNCHANGED <<failedAt, resolution, connected, fov, segCalls, segId, detFilter,
                   paused, pauseCalls, resumeCalls, imageRequests, detRequests, fsVars,
                   mainVars, captureVars, saveVars>>

\* line 60 with the call left out
SimPauseTrue_Omitted ==
    /\ pc = "simPause_true"
    /\ pc' = "simGetImages"
    /\ UNCHANGED <<failedAt, simVars, fsVars, mainVars, captureVars, saveVars>>

\* line 60
SimPauseTrue ==
    /\ pc = "simPause_true"
    /\ paused' = TRUE
    /\ pauseCalls' = pauseCalls + 1
    /\ pc' = "simGetImages"
    /\ UNCHANGED <<failedAt, resolution, connected, fov, segCalls, segId, detFilter,
                   pose, resumeCalls, imageRequests, detRequests, fsVars, mainVars,
                   captureVars, saveVars>>

\* lines 63-66: the simulator answers each request in order
SimGetImages ==
    /\ pc = "simGetImages"
    /\ responses' = [k \in 1..Len(ImageRequests) |-> ResponseTo(ImageRequests[k], resolution)]
    /\ imageRequests' = imageRequests + 1
    /\ pc' = "simGetDetections"
    /\ UNCHANGED <<failedAt, resolution, connected, fov, segCalls, segId, detFilter,
                   pose, paused, pauseCalls, resumeCalls, detRequests, fsVars, mainVars,
                   num_iterations, meshNames, x, dets, saveVars>>

\* lines 69-72: the simulator reports what the camera sees; then the call
\* save_images_and_annotations(responses, dets, tmp_dir, meshNames, x) and line 81
SimGetDetections ==
    /\ pc = "simGetDetections"
    /\ dets' \in SeqsUpTo(SceneDetectionsIn(resolution), MaxSceneDets)
    /\ detRequests' = detRequests + 1
    /\ image_file' = ImageFile(x)
    /\ i' = 0
    /\ pc' = IF 0 < Len(responses) THEN "write_image" ELSE "Image_open"
    /\ UNCHANGED <<failedAt, resolution, connected, fov, segCalls, segId, detFilter,
                   pose, paused, pauseCalls, resumeCalls, imageRequests, fsVars,
                   mainVars, num_iterations, meshNames, x, responses, im, listBoxes>>

\* line 74 issuing a pause instead of a resume
SimPauseFalse_StaysPaused ==
    /\ pc = "simPause_false"
    /\ paused' = TRUE
    /\ pauseCalls' = pauseCalls + 1
    /\ x' = x + 1
    /\ pc' = LoopEntry(x + 1, num_iterations)
    /\ UNCHANGED <<failedAt, resolution, connected, fov, segCalls, segId, detFilter,
                   pose, resumeCalls, imageRequests, detRequests, fsVars, mainVars,
                   num_iterations, meshNames, responses, dets, saveVars>>

\* line 74, and the loop's step to the next x
SimPauseFalse ==
    /\ pc = "simPause_false"
    /\ paused' = FALSE
    /\ resumeCalls' = resumeCalls + 1
    /\ x' = x + 1
    /\ pc' = LoopEntry(x + 1, num_iterations)
    /\ UNCHANGED <<failedAt, resolution, connected, fov, segCalls, segId, detFilter,
                   pose, pauseCalls, imageRequests, detRequests, fsVars, mainVars,
                   num_iterations, meshNames, responses, dets, saveVars>>

\* line 156
ResetPose ==
    /\ pc = "reset_pose"
    /\ pose' = <<0, 0, 0>>
    /\ pc' = "done"
    /\ UNCHANGED <<failedAt, resolution, connected, fov, segCalls, segId, detFilter,
                   paused, pauseCalls, resumeCalls, imageRequests, detRequests, fsVars,
                   mainVars, captureVars, saveVars>>

(***************************************************************************)
(* save_images_and_annotations, annotate_and_save_image,                   *)
(* save_bounding_boxes.                                                    *)
(***************************************************************************)
\* the file one response is written to (lines 84-91)
ResponseFile(stem, response) ==
    IF response.pixels_as_float THEN stem \o ".pfm"
    ELSE stem \o (IF response.image_type = "Scene" THEN "_orig.jpg" ELSE "_seg.jpg")

\* lines 83-91, one pass of the loop
WriteImage ==
    /\ pc = "write_image"
    /\ i < Len(responses)
    /\ written' = Append(written, ResponseFile(image_file, responses[i + 1]))
    /\ i' = i + 1
    /\ pc' = IF i + 1 < Len(responses) THEN "write_image" ELSE "Image_open"
    /\ UNCHANGED <<failedAt, simVars, dirs, annotImage, labelFile, mainVars,
                   captureVars, image_file, im, listBoxes>>

\* lines 100-101: the original image must exist to be opened
ImageOpen ==
    /\ pc = "Image_open"
    /\ \E k \in 1..Len(written) : written[k] = image_file \o "_orig.jpg"
    /\ im' = <<>>
    /\ listBoxes' = <<>>
    /\ pc' = "annotate"
    /\ UNCHANGED <<failedAt, simVars, fsVars, mainVars, captureVars, image_file, i>>

\* lines 103-113, both loops
Annotate ==
    /\ pc = "annotate"
    /\ listBoxes' = AnnotateLoop(dets, meshNames)
    /\ im' = DrawOps(AnnotateLoop(dets, meshNames))
    /\ pc' = "im_save"
    /\ UNCHANGED <<failedAt, simVars, fsVars, mainVars, captureVars, image_file, i>>

\* line 115
ImSave ==
    /\ pc = "im_save"
    /\ written' = Append(written, image_file \o "_annot.jpg")
    /\ annotImage' = im
    /\ pc' = "save_bounding_boxes"
    /\ UNCHANGED <<failedAt, simVars, dirs, labelFile, mainVars, captureVars, saveVars>>

\* lines 116-129: the file is opened for writing (truncated) and gets one line
\* per element of listBoxes; then both callers return into capture_images
SaveBoundingBoxes ==
    /\ pc = "save_bounding_boxes"
    /\ written' = Append(written, image_file \o ".txt")
    /\ labelFile' = [k \in 1..Len(listBoxes) |-> LabelLine(listBoxes[k].box2D)]
    /\ pc' = "simPause_false"
    /\ UNCHANGED <<failedAt, simVars, dirs, annotImage, mainVars, captureVars, saveVars>>

(***************************************************************************)
(* Exceptions.                                                             *)
(***************************************************************************)
\* a handler that swallows the exception and goes on with the next iteration
Fail_SkipAndContinue ==
    /\ pc \in FallibleSteps
    /\ failedAt' = pc
    /\ x' = x + 1
    /\ pc' = LoopEntry(x + 1, num_iterations)
    /\ UNCHANGED <<simVars, fsVars, mainVars, num_iterations, meshNames, responses,
                   dets, saveVars>>

\* A call into the simulator or the file system raises.  Nothing in the script
\* catches it: it leaves every frame up to main and the process ends.
Fail ==
    /\ pc \in FallibleSteps
    /\ failedAt' = pc
    /\ pc' = "aborted"
    /\ UNCHANGED <<simVars, fsVars, mainVars, captureVars, saveVars>>

(***************************************************************************)
(* Specifications.                                                         *)
(***************************************************************************)
Next ==
    \/ MakeDirs
    \/ VehicleClient
    \/ ConfirmConnection
    \/ SimSetCameraFov
    \/ WaitKey1
    \/ SimGetCameraInfo
    \/ WaitKey2
    \/ SimResetSegmentation
    \/ SimAssignSegmentation
    \/ SimSetDetectionFilterRadius
    \/ SimAddDetectionFilterMeshName
    \/ SimSetVehiclePose
    \/ SimPauseTrue
    \/ SimGetImages
    \/ SimGetDetections
    \/ WriteImage
    \/ ImageOpen
    \/ Annotate
    \/ ImSave
    \/ SaveBoundingBoxes
    \/ SimPauseFalse
    \/ ResetPose
    \/ Fail

Spec == Init /\ [][Next]_vars

\* reset_segmentation_ids(client, object_name_list) called on a connected
\* client, for any name list and any scene
InitSeg ==
    /\ pc = "seg_reset"
    /\ failedAt = "none"
    /\ resolution \in Resolutions
    /\ n = NumDirs
    /\ dirs = {ToString(k) : k \in 0..(NumDirs - 1)}
    /\ connected = TRUE
    /\ fov = CameraFov
    /\ camera_id = NumCameras
    /\ object_name_list \in SeqsUpTo(FilterNames, MaxNames) \cup {LongNameList}
    /\ idx = 0
    /\ segCalls = <<>>
    /\ segId \in [ObjectNames -> InitSegIds]
    /\ detFilter = <<0, "">>
    /\ num_iterations = 0
    /\ meshNames = <<>>
    /\ x = 0
    /\ pose = <<0, 0, 0>>
    /\ paused = FALSE
    /\ pauseCalls = 0
    /\ resumeCalls = 0
    /\ imageRequests = 0
    /\ detRequests = 0
    /\ responses = <<>>
    /\ dets = <<>>
    /\ image_file = ""
    /\ i = 0
    /\ im = <<>>
    /\ listBoxes = <<>>
    /\ written = <<>>
    /\ annotImage = <<>>
    /\ labelFile = <<>>

\* an exception raised inside reset_segmentation_ids
FailSeg == pc \in {"seg_reset", "seg_assign"} /\ Fail

NextSeg ==
    \/ SimResetSegmentation
    \/ SimAssignSegmentation
    \/ FailSeg

SpecSeg == InitSeg /\ [][NextSeg]_vars

\* annotate_and_save_image(image_file, dets, meshNames) called from
\* save_images_and_annotations in the first iteration of a capture loop, for any
\* detections and any filter list
InitAnnot ==
    /\ pc = "Image_open"
    /\ failedAt = "none"
    /\ resolution \in Resolutions
    /\ n = NumDirs
    /\ dirs = {ToString(k) : k \in 0..(NumDirs - 1)}
    /\ connected = TRUE
    /\ fov = CameraFov
    /\ camera_id = NumCameras
    /\ object_name_list = <<>>
    /\ idx = 0
    /\ segCalls = <<[literal |-> "", id |-> 0]>>
    /\ segId = [o \in ObjectNames |-> 0]
    /\ detFilter = <<FilterRadius, "*">>
    /\ num_iterations = 1
    /\ meshNames \in SeqsUpTo(FilterNames, MaxNames)
    /\ x = 0
    /\ pose = PoseOf(0)
    /\ paused = TRUE
    /\ pauseCalls = 1
    /\ resumeCalls = 0
    /\ imageRequests = 1
    /\ detRequests = 1
    /\ responses = [k \in 1..Len(ImageRequests) |-> ResponseTo(ImageRequests[k], resolution)]
    /\ dets \in SeqsUpTo(DetectionsIn(resolution), MaxDets)
    /\ image_file = ImageFile(0)
    /\ i = Len(ImageRequests)
    /\ im = <<>>
    /\ listBoxes = <<>>
    /\ written = <<ImageFile(0) \o "_orig.jpg", ImageFile(0) \o "_seg.jpg">>
    /\ annotImage = <<>>
    /\ labelFile = <<>>

\* an exception raised inside annotate_and_save_image
FailAnnot == pc \in {"Image_open", "im_save", "save_bounding_boxes"} /\ Fail

NextAnnot ==
    \/ ImageOpen
    \/ Annotate
    \/ ImSave
    \/ SaveBoundingBoxes
    \/ FailAnnot

SpecAnnot == InitAnnot /\ [][NextAnnot]_vars

(***************************************************************************)
(* Vocabulary of the properties.                                           *)
(***************************************************************************)
\* sub occurs in s as a contiguous run of characters, case-sensitively
IsSubstring(sub, s) ==
    \E a \in 0..Len(s) : \E b \in a..Len(s) : SubSeq(s, a + 1, b) = sub

\* the name contains at least one of the filter substrings
Qualifies(name, filters) ==
    \E k \in 1..Len(filters) : IsSubstring(filters[k], name)

\* the four artifacts of iteration k, in the order they are written
Artifacts(k) ==
    << "0/" \o ToString(k) \o "_0_orig.jpg", "0/" \o ToString(k) \o "_0_seg.jpg",
       "0/" \o ToString(k) \o "_0_annot.jpg", "0/" \o ToString(k) \o "_0.txt" >>

\* the artifacts of iterations 0..k-1, in increasing iteration order
RECURSIVE ArtifactsUpTo(_)
ArtifactsUpTo(k) == IF k = 0 THEN <<>> ELSE ArtifactsUpTo(k - 1) \o Artifacts(k - 1)

IsPrefix(s, t) == Len(s) <= Len(t) /\ SubSeq(t, 1, Len(s)) = s

AllDirs == {"0", "1", "2", "3"}

\* capture_images has returned normally
CaptureReturned == pc \in {"reset_pose", "done"} \/ (pc = "aborted" /\ failedAt = "reset_pose")

\* the image request, the detection request or the persistence step raised
FailedInCapture ==
    /\ pc = "aborted"
    /\ failedAt \in {"simGetImages", "simGetDetections", "write_image", "Image_open",
                     "im_save", "save_bounding_boxes"}

\* annotate_and_save_image has completed
AnnotateDone == pc = "simPause_false"

\* reset_segmentation_ids has completed
SegmentationDone == pc = "simSetDetectionFilterRadius"

\* the fields of a line of the label file
RECURSIVE Fields(_)
Fields(line) ==
    IF \A k \in 1..Len(line) : SubSeq(line, k, k) # " " THEN <<line>>
    ELSE LET sp == CHOOSE k \in 1..Len(line) :
                      /\ SubSeq(line, k, k) = " "
                      /\ \A j \in 1..(k - 1) : SubSeq(line, j, j) # " "
         IN  <<SubSeq(line, 1, sp - 1)>> \o Fields(SubSeq(line, sp + 1, Len(line)))

\* a printed number that lies in [0,1]
PrintedInUnitInterval(field) ==
    \/ (Len(field) >= 3 /\ SubSeq(field, 1, 2) = "0.")
    \/ field = "1.0"

(***************************************************************************)
(* C1.  In every iteration the simulation is paused before the image       *)
(* request and the detection request are issued, and the resume call of    *)
(* the iteration is issued only after save_images_and_annotations of that  *)
(* iteration has completed: every image request, detection request and     *)
(* file write happens with the clock paused, under the pause of its own    *)
(* iteration.                                                              *)
(***************************************************************************)
C1_CaptureWhilePaused ==
    [][ /\ (imageRequests' # imageRequests \/ detRequests' # detRequests
                \/ written' # written)
            => (paused /\ paused' /\ pauseCalls = x + 1 /\ resumeCalls = x)
        /\ (resumeCalls' # resumeCalls)
            => (written = ArtifactsUpTo(x + 1) /\ imageRequests = x + 1
                  /\ detRequests = x + 1)
      ]_vars

C1_Witness ==
    /\ pc = "simPause_false"
    /\ x = 1
    /\ paused
    /\ written = ArtifactsUpTo(2)

(***************************************************************************)
(* C2.  A run of capture_images in which no call fails writes exactly the  *)
(* four artifacts of each iteration 0..K-1, with stem {iteration}_0, in    *)
(* increasing iteration order, and nothing for K = 0; at every moment      *)
(* what has been written is a prefix of that sequence.                     *)
(***************************************************************************)
C2_ArtifactSets ==
    /\ IsPrefix(written, ArtifactsUpTo(num_iterations))
    /\ CaptureReturned => written = ArtifactsUpTo(num_iterations)

C2_Witness ==
    /\ pc = "done"
    /\ num_iterations = 3
    /\ Len(written) = 12

(***************************************************************************)
(* C3.  When annotate_and_save_image has completed, the detections drawn   *)
(* on the annotated image are exactly the detections whose name contains   *)
(* at least one filter substring, and the lines of the label file are      *)
(* exactly the lines of those detections: a detection whose name contains  *)
(* none of the substrings is in neither.                                   *)
(***************************************************************************)
C3_FilteredIffContains ==
    AnnotateDone =>
        LET qualifying == {dets[k] : k \in {j \in 1..Len(dets) : Qualifies(dets[j].name, meshNames)}}
        IN  /\ {[name |-> annotImage[k].text,
                 box2D |-> [min |-> annotImage[k].rectangle[1],
                            max |-> annotImage[k].rectangle[2]]] : k \in 1..Len(annotImage)}
                 = qualifying
            /\ {labelFile[k] : k \in 1..Len(labelFile)}
                 = {LabelLine(d.box2D) : d \in qualifying}

C3_Witness ==
    /\ AnnotateDone
    /\ meshNames = <<"Char">>
    /\ Len(dets) = 2
    /\ dets[1].name = "character_03"
    /\ dets[2].name = "Character_03"
    /\ Len(labelFile) = 1

(***************************************************************************)
(* C4.  The label file written by one persistence call holds exactly one   *)
(* line per qualifying detection, in the order the detections were         *)
(* reported, also for a detection whose name contains several of the       *)
(* filter substrings.                                                      *)
(***************************************************************************)
C4_OneLinePerDetection ==
    AnnotateDone =>
        LET qualifying == SelectSeq(dets, LAMBDA d : Qualifies(d.name, meshNames))
        IN  labelFile = [k \in 1..Len(qualifying) |-> LabelLine(qualifying[k].box2D)]

(***************************************************************************)
(* C5.  As claimed: after reset_segmentation_ids on a list of unique       *)
(* names, every object matching the j-th name has ID (j+1) mod 256, every  *)
(* object matching no name has ID 0, and the reset call comes first.       *)
(***************************************************************************)
UniqueNames(names) ==
    \A a, b \in 1..Len(names) : names[a] = names[b] => a = b

C5_Original ==
    (SegmentationDone /\ UniqueNames(object_name_list)) =>
        /\ \A o \in ObjectNames : \A j \in 0..(Len(object_name_list) - 1) :
              IsSubstring(object_name_list[j + 1], o) => segId[o] = (j + 1) % 256
        /\ \A o \in ObjectNames :
              ~Qualifies(o, object_name_list) => segId[o] = 0
        /\ segCalls[1] = [literal |-> "", id |-> 0]

(***************************************************************************)
(* C5, amended.  After reset_segmentation_ids, every object matching at    *)
(* least one name has ID (j+1) mod 256 for the last name j (0-indexed) it  *)
(* matches, every object matching no name has ID 0, and the reset-to-0     *)
(* call is issued before every assignment call.                            *)
(***************************************************************************)
C5_LastMatchWins ==
    /\ SegmentationDone =>
          \A o \in ObjectNames :
             LET matching == {j \in 0..(Len(object_name_list) - 1) :
                                 IsSubstring(object_name_list[j + 1], o)}
             IN  IF matching = {} THEN segId[o] = 0
                 ELSE \E j \in matching :
                         /\ \A m \in matching : m <= j
                         /\ segId[o] = (j + 1) % 256
    /\ segCalls # <<>> =>
          /\ segCalls[1] = [literal |-> "", id |-> 0]
          /\ \A k \in 2..Len(segCalls) :
                segCalls[k] = [literal |-> object_name_list[k - 1], id |-> (k - 1) % 256]

C5_Witness ==
    /\ SegmentationDone
    /\ object_name_list = <<"Char", "Character">>
    /\ segId["Character_03"] = 2
    /\ segId["Wall_01"] = 0

(***************************************************************************)
(* C6.  As claimed: with filter list ["Character"], "Character_03" with    *)
(* box (100,100)-(200,300) gives the line 1 0.147 0.195 0.098 0.195 and    *)
(* "Wall_01" gives no line.                                                *)
(***************************************************************************)
ExampleDetection == Det("Character_03", Box(100, 100, 200, 300))

ExampleCase ==
    /\ AnnotateDone
    /\ meshNames = <<"Character">>
    /\ \A k \in 1..Len(dets) : dets[k] = ExampleDetection \/ dets[k].name = "Wall_01"

ExampleCount == Cardinality({k \in 1..Len(dets) : dets[k] = ExampleDetection})

C6_Original ==
    ExampleCase => labelFile = [k \in 1..ExampleCount |-> "1 0.147 0.195 0.098 0.195"]

(***************************************************************************)
(* C6, amended.  With filter list ["Character"], "Character_03" with box   *)
(* (100,100)-(200,300) gives the line 1 0.146 0.195 0.098 0.195, the       *)
(* values of the formula of save_bounding_boxes, and "Wall_01" gives no    *)
(* line.                                                                   *)
(***************************************************************************)
C6_ExampleLine ==
    ExampleCase => labelFile = [k \in 1..ExampleCount |-> "1 0.146 0.195 0.098 0.195"]

C6_Witness ==
    /\ ExampleCase
    /\ Len(dets) = 2
    /\ dets[1].name = "Wall_01"
    /\ dets[2] = ExampleDetection
    /\ Len(labelFile) = 1

(***************************************************************************)
(* C7.  A failure of the image request, the detection request or the       *)
(* persistence step in iteration i is not caught: the step that raises     *)
(* ends the run, no later iteration is started (the pose is that of        *)
(* iteration i, nothing of a later iteration is requested or written),     *)
(* and main performs no further step.                                      *)
(***************************************************************************)
C7_FailureAborts ==
    /\ [](FailedInCapture =>
            /\ x < num_iterations
            /\ pose = <<x + 90, -20, -30>>
            /\ imageRequests <= x + 1
            /\ detRequests <= x + 1
            /\ pauseCalls = x + 1
            /\ IsPrefix(written, ArtifactsUpTo(x + 1)))
    /\ [][ /\ failedAt' # failedAt => pc' = "aborted"
           /\ pc = "aborted" => UNCHANGED vars ]_vars

C7_Witness ==
    /\ FailedInCapture
    /\ failedAt = "simGetDetections"
    /\ x = 1
    /\ num_iterations = 3
    /\ written = ArtifactsUpTo(1)

(***************************************************************************)
(* C8.  As claimed: session setup, then directory preparation, then        *)
(* segmentation labeling, then the capture loop; no output directory is    *)
(* created before the connection has been confirmed.                       *)
(***************************************************************************)
SegmentationLabeled ==
    /\ object_name_list = <<"Character">>
    /\ Len(segCalls) = 1 + Len(object_name_list)

InCaptureLoop ==
    pose # <<0, 0, 0>> \/ pauseCalls > 0 \/ imageRequests > 0 \/ written # <<>>

C8_Original ==
    /\ dirs # {} => (connected /\ fov = 87)
    /\ segCalls # <<>> => dirs = AllDirs
    /\ InCaptureLoop => SegmentationLabeled

(***************************************************************************)
(* C8, amended.  The stages run strictly in the order output directory     *)
(* preparation, then session setup (connect, confirm, set field-of-view),  *)
(* then segmentation labeling, then the capture loop, and no stage is      *)
(* entered before the previous one has completed; in particular the        *)
(* connection is attempted only after all four output directories exist.   *)
(***************************************************************************)
C8_StageOrder ==
    /\ (pc \in {"VehicleClient", "confirmConnection", "simSetCameraFov"}
          \/ failedAt \in {"VehicleClient", "confirmConnection", "simSetCameraFov"}
          \/ connected \/ fov # 0)
         => dirs = AllDirs
    /\ (pc \in {"seg_reset", "seg_assign"} \/ segCalls # <<>>)
         => (connected /\ fov = 87 /\ dirs = AllDirs)
    /\ (pc \in {"simSetVehiclePose", "simPause_true"} \/ InCaptureLoop)
         => (SegmentationLabeled /\ connected /\ fov = 87 /\ dirs = AllDirs
               /\ detFilter = <<80000, "*">>)

C8_Witness ==
    /\ pc = "VehicleClient"
    /\ dirs = AllDirs
    /\ ~connected
    /\ segCalls = <<>>

(***************************************************************************)
(* C9.  Each of the four numbers of every line written by                  *)
(* save_bounding_boxes lies in [0,1].                                      *)
(***************************************************************************)
C9_ValuesInUnitInterval ==
    AnnotateDone =>
        \A k \in 1..Len(labelFile) :
            LET fields == Fields(labelFile[k])
            IN  /\ Len(fields) = 5
                /\ \A f \in 2..5 : PrintedInUnitInterval(fields[f])

(***************************************************************************)
(* C10.  Pause and resume calls alternate, starting with a pause.  When    *)
(* capture_images returns normally the simulation is running and there    *)
(* were K pause and K resume calls.  When the image request, the detection *)
(* request or the persistence step of an iteration fails, no resume call   *)
(* follows and the run ends with the simulation paused.                    *)
(***************************************************************************)
C10_PauseResumeAlternate ==
    /\ [](/\ pauseCalls - resumeCalls \in {0, 1}
          /\ paused <=> (pauseCalls = resumeCalls + 1)
          /\ CaptureReturned =>
                (~paused /\ pauseCalls = num_iterations /\ resumeCalls = num_iterations)
          /\ FailedInCapture => (paused /\ resumeCalls = x /\ pauseCalls = x + 1))
    /\ [][ /\ pauseCalls' # pauseCalls => (~paused /\ pauseCalls' = pauseCalls + 1)
           /\ resumeCalls' # resumeCalls => (paused /\ resumeCalls' = resumeCalls + 1)
           /\ FailedInCapture => (resumeCalls' = resumeCalls /\ paused')
         ]_vars

C10_Witness ==
    /\ FailedInCapture
    /\ failedAt = "im_save"
    /\ x = 1
    /\ paused
    /\ pauseCalls = 2
    /\ resumeCalls = 1

=============================================================================
